---- MODULE Spec2Model ----
(***************************************************************************)
(* Model of the cellarsense sensor store (package sensorstore) and of the  *)
(* daemon that feeds it.                                                   *)
(*                                                                         *)
(* Time is counted in ticks since the zero time of Go's time package; the  *)
(* origin is a multiple of every resolution used, as Time.Truncate works   *)
(* on the absolute time.  A time.Time is a record [instant, zone]: the     *)
(* absolute instant and the offset of its location from UTC, both in       *)
(* ticks.  Byte strings (keys and values of the engine) are sequences of   *)
(* ASCII codes, compared bytewise as bbolt's cursor does.                  *)
(***************************************************************************)
EXTENDS Integers, Sequences, FiniteSets, TLC

\* ---------------------------------------------------------------- bounds
\* Number of ticks the clock advances in a run.
MaxTicks == 2
\* Largest number of ingestion handles open in a run.
MaxHandles == 2
\* Largest number of sends started in a run, over all handles.
MaxSends == 2
MaxCorrupt == 1

\* ------------------------------------------------------ program constants
\* The resolution handed to New, in ticks (main: timeResolution).
Resolution == 2
\* A hand-off channel made with room for one value.
ChanCapBuffered == 0 + 1

\* Capacity of the hand-off channel: make(chan SensorValues).
ChanCap == 0

\* The sensor identity of the daemon (main: sensorID).
sensorID == "test"
\* The sensor identities callers use; "aux" has no handle at the start.
Sensors == {sensorID, "aux"}
\* The clock reading at the start of a run: a bucket start late enough for
\* every query window to begin after the origin.
StartTime == 2 * Resolution
\* The largest clock reading of a run.
MaxTime == StartTime + MaxTicks
\* Offsets from UTC the local zone of the process clock takes, in ticks.
Offsets == {0, 12}
\* The durations handed to ReadValues.
Durations == {-2, 0, 1, 2}

\* ----------------------------------------------------------- value types
\* A float32: a small whole number, or not-a-number.
F(n) == [nan |-> FALSE, num |-> n]
NaN == [nan |-> TRUE, num |-> 0]

\* type SensorValues struct { Temperature, Humidity float32 }
SensorValues(t, h) == [Temperature |-> t, Humidity |-> h]

\* The readings senders hand to an ingestion channel: one that can be
\* stored, and one that json.Marshal rejects.
Readings == {SensorValues(F(1), F(0)), SensorValues(NaN, F(0))}

\* The readings a caller hands to StoreValues directly.
Samples == Readings \cup {SensorValues(F(-2), F(5))}

\* type TimedSensorValues struct { Timestamp time.Time; Values SensorValues }
\* Timestamp is kept as the instant it denotes (Time.Equal compares instants).
TimedSensorValues(ts, v) == [Timestamp |-> ts, Values |-> v]

\* ------------------------------------------------------------ time codec
Time(i, z) == [instant |-> i, zone |-> z]

\* A key made of the clock reading as it is.
TruncateNone(t, d) == t

\* Time.Truncate(d): rounds the absolute time down to a multiple of d;
\* returns t unchanged for d <= 0.
Truncate(t, d) == IF d <= 0 THEN t ELSE [t EXCEPT !.instant = @ - (@ % d)]

\* Time.Add(d)
Add(t, d) == [t EXCEPT !.instant = @ + d]

\* Two decimal digits, most significant first (the fixed-width, zero-padded
\* fields of the layout).
Pad2(n) == <<48 + (n \div 10), 48 + (n % 10)>>

\* The "Z07:00" element of time.RFC3339: "Z" for UTC, else sign and offset.
FormatZone(z) == IF z = 0 THEN <<90>>
                 ELSE IF z > 0 THEN <<43>> \o Pad2(z)
                 ELSE <<45>> \o Pad2(0 - z)

\* Time.Format(timeFormat): the wall clock reading of t in its own location,
\* followed by the zone element.
Format(t) == Pad2(t.instant + t.zone) \o FormatZone(t.zone)

IsDigit(c) == c >= 48 /\ c <= 57

Num2(s, i) == (s[i] - 48) * 10 + (s[i + 1] - 48)

\* time.Parse(timeFormat, string(k)): [ok, instant].
Parse(k) ==
    IF Len(k) = 3 /\ IsDigit(k[1]) /\ IsDigit(k[2]) /\ k[3] = 90
      THEN [ok |-> TRUE, instant |-> Num2(k, 1)]
    ELSE IF Len(k) = 5 /\ IsDigit(k[1]) /\ IsDigit(k[2]) /\ k[3] \in {43, 45}
            /\ IsDigit(k[4]) /\ IsDigit(k[5])
      THEN [ok |-> TRUE,
            instant |-> IF k[3] = 43 THEN Num2(k, 1) - Num2(k, 4)
                        ELSE Num2(k, 1) + Num2(k, 4)]
    ELSE [ok |-> FALSE, instant |-> 0]

\* ----------------------------------------------------------- value codec
\* A float32 as JSON text: an optional minus sign and one digit.
MarshalFloat(f) == IF f.num < 0 THEN <<45, 48 - f.num>> ELSE <<48 + f.num>>

\* json.Marshal(values): [ok, bytes]; fails on a NaN field
\* (UnsupportedValueError).  {T:<temperature>,H:<humidity>}
Marshal(v) ==
    IF v.Temperature.nan \/ v.Humidity.nan
      THEN [ok |-> FALSE, bytes |-> <<>>]
      ELSE [ok |-> TRUE,
            bytes |-> <<123, 84, 58>> \o MarshalFloat(v.Temperature)
                      \o <<44, 72, 58>> \o MarshalFloat(v.Humidity) \o <<125>>]

\* The number that starts at position i of s: [ok, num, next].
UnmarshalFloat(s, i) ==
    IF i <= Len(s) /\ IsDigit(s[i])
      THEN [ok |-> TRUE, num |-> s[i] - 48, next |-> i + 1]
    ELSE IF i + 1 <= Len(s) /\ s[i] = 45 /\ IsDigit(s[i + 1])
      THEN [ok |-> TRUE, num |-> 48 - s[i + 1], next |-> i + 2]
    ELSE [ok |-> FALSE, num |-> 0, next |-> i]

\* json.Unmarshal(v, &values): [ok, values].
Unmarshal(s) ==
    IF Len(s) >= 3 /\ SubSeq(s, 1, 3) = <<123, 84, 58>>
      THEN LET t == UnmarshalFloat(s, 4) IN
           IF t.ok /\ t.next + 2 <= Len(s)
              /\ SubSeq(s, t.next, t.next + 2) = <<44, 72, 58>>
             THEN LET h == UnmarshalFloat(s, t.next + 3) IN
                  IF h.ok /\ h.next = Len(s) /\ s[h.next] = 125
                    THEN [ok |-> TRUE, values |-> SensorValues(F(t.num), F(h.num))]
                    ELSE [ok |-> FALSE, values |-> SensorValues(F(0), F(0))]
             ELSE [ok |-> FALSE, values |-> SensorValues(F(0), F(0))]
      ELSE [ok |-> FALSE, values |-> SensorValues(F(0), F(0))]

\* convertToValues(k, v): [ptr, err]; ptr is <<>> for nil, else <<result>>.
convertToValues(k, v) ==
    LET timestamp == Parse(k) IN
    IF ~timestamp.ok THEN [ptr |-> <<>>, err |-> TRUE]
    ELSE LET values == Unmarshal(v) IN
         IF ~values.ok THEN [ptr |-> <<>>, err |-> TRUE]
         ELSE [ptr |-> <<TimedSensorValues(timestamp.instant, values.values)>>,
               err |-> FALSE]

\* ------------------------------------------------- the key-value engine
\* bytes.Compare(a, b) < 0
RECURSIVE BytesLess(_, _)
BytesLess(a, b) ==
    IF a = <<>> THEN b # <<>>
    ELSE IF b = <<>> THEN FALSE
    ELSE IF Head(a) # Head(b) THEN Head(a) < Head(b)
    ELSE BytesLess(Tail(a), Tail(b))

\* A bucket is a function from its keys to their values.
EmptyBucket == <<>>

\* Bucket.Put(key, value): inserts, or overwrites the value of the key.
Put(b, key, value) == (key :> value) @@ b

\* The keys of a set in the order of the cursor.
RECURSIVE Sorted(_)
Sorted(ks) ==
    IF ks = {} THEN <<>>
    ELSE LET least == CHOOSE k \in ks : \A o \in ks : o = k \/ BytesLess(k, o)
         IN <<least>> \o Sorted(ks \ {least})

\* Cursor.Seek(start) and the Cursor.Next calls after it: the keys >= start.
Seek(b, start) == Sorted({k \in DOMAIN b : ~BytesLess(k, start)})

\* Cursor.Last(): the last key and its value; an empty key and value when
\* the bucket is empty.
Last(b) ==
    IF DOMAIN b = {} THEN [k |-> <<>>, v |-> <<>>]
    ELSE LET ks == Sorted(DOMAIN b) IN [k |-> ks[Len(ks)], v |-> b[ks[Len(ks)]]]

\* ------------------------------------------------------------- ingestion
\* The zero value of SensorValues, which a receive on a closed channel yields.
ZeroValues == SensorValues(F(0), F(0))

\* c := make(chan SensorValues); go s.storeValuesRoutine(c, sensorID)
\* buf: the channel's buffer; sendq: the values of the senders blocked on it,
\* in the order they arrived; pc, values: where the routine is and the value
\* it holds.  sent, recvd, handled are history: the values in the order
\* their sends began, in the order the routine received them, and in the
\* order the routine's StoreValues calls for them returned.
NewChan(id) ==
    [sensor |-> id, closed |-> FALSE, buf |-> <<>>, sendq |-> <<>>,
     pc |-> "recv", values |-> ZeroValues,
     sent |-> <<>>, recvd |-> <<>>, handled |-> <<>>]

\* ----------------------------------------------------------------- state
VARIABLES
    now,        \* the instant the process clock shows
    zone,       \* the offset from UTC of the process's local zone
    db,         \* the root bucket: sensor identity -> that sensor's bucket
    wlock,      \* the engine's writer lock: 0, or the handle whose routine holds it
    chans,      \* the ingestion handles: channel and Writer Routine of each
    rd,         \* a ReadValues call between its clock reading and its transaction
    ret,        \* what the call that has just returned gave back
    panicked,   \* the process died of a nil bucket dereference
    main        \* the daemon's main goroutine: where it is, what its select waits on

vars == <<now, zone, db, wlock, chans, rd, ret, panicked, main>>

NoRet == [op |-> "none"]
Idle == [pc |-> "idle"]

\* time.Now(): the clock reading, in the local zone.
Now == Time(now, zone)

Handles == 1 .. Len(chans)

\* main before readSensorValues has taken anything from its select: no tick
\* of the ticker and no signal is pending.
MainStart == [pc |-> "loop", tick |-> FALSE, signal |-> FALSE, fired |-> 0]

\* The process runs: it has neither panicked nor exited.
Alive == ~panicked /\ main.pc \notin {"exited", "fatal"}

\* The offset of the local zone at the start of a run.
StartZone == CHOOSE z \in Offsets : z # 0

\* The state main reaches before it starts sampling: the engine is open on a
\* fresh file, New has created the root bucket, and StoreValuesChannel has
\* created the bucket of sensorID and started its Writer Routine.
Init ==
    /\ now = StartTime
    /\ zone = StartZone
    /\ db = (sensorID :> EmptyBucket)
    /\ wlock = 0
    /\ chans = <<NewChan(sensorID)>>
    /\ rd = Idle
    /\ ret = NoRet
    /\ panicked = FALSE
    /\ main = MainStart

\* ----------------------------------------------------------- environment
\* Time passes.
Tick ==
    /\ Alive
    /\ now < MaxTime
    /\ now' = now + 1
    /\ ret' = NoRet
    /\ UNCHANGED <<zone, db, wlock, chans, rd, panicked, main>>

\* The local zone changes its offset (a daylight-saving transition).
ZoneChange ==
    /\ Alive
    /\ zone' \in Offsets \ {zone}
    /\ ret' = NoRet
    /\ UNCHANGED <<now, db, wlock, chans, rd, panicked, main>>

\* ----------------------------------------------------------------- store
\* The key StoreValues writes under at clock reading t.
StoreKey(t) == Format(Truncate(t, Resolution))

\* The closure StoreValues hands to db.Update, run on sensor bucket b at
\* clock reading t: [err, bucket].
StoreTx(b, t, values) ==
    LET key == StoreKey(t)
        value == Marshal(values)
    IN IF ~value.ok THEN [err |-> TRUE, bucket |-> b]
       ELSE [err |-> FALSE, bucket |-> Put(b, key, value.bytes)]

\* What a StoreValues call that runs its transaction leaves behind and gives
\* back; at is the bucket start of its clock reading.
StoreEffect(id, values) ==
    LET tx == StoreTx(db[id], Now, values) IN
    /\ db' = [db EXCEPT ![id] = tx.bucket]
    /\ ret' = [op |-> "StoreValues", sensor |-> id, values |-> values,
               err |-> tx.err, at |-> Truncate(Now, Resolution).instant]

\* StoreValues(sensorID, values) called directly: one read-write
\* transaction.  A sensor without a bucket makes b nil, and b.Put panics.
StoreValues(id, values) ==
    /\ Alive
    /\ wlock = 0
    /\ IF id \in DOMAIN db
         THEN /\ StoreEffect(id, values)
              /\ UNCHANGED panicked
         ELSE /\ panicked' = TRUE
              /\ ret' = NoRet
              /\ UNCHANGED db
    /\ UNCHANGED <<now, zone, wlock, chans, rd, main>>

\* ReadLastValue(sensorID): one read-only transaction.  A sensor without a
\* bucket makes the bucket nil, and its Cursor call panics.
ReadLastValue(id) ==
    /\ Alive
    /\ IF id \in DOMAIN db
         THEN LET last == Last(db[id])
                  result == convertToValues(last.k, last.v)
              IN /\ ret' = [op |-> "ReadLastValue", sensor |-> id,
                            ptr |-> result.ptr, err |-> result.err]
                 /\ UNCHANGED panicked
         ELSE /\ panicked' = TRUE
              /\ ret' = NoRet
    /\ UNCHANGED <<now, zone, db, wlock, chans, rd, main>>

\* The key ReadValues seeks to, for a clock reading t.
StartKey(t, duration) ==
    IF duration > 0
      THEN Format(Truncate(Add(t, 0 - duration), Resolution))
      ELSE Format(Truncate(Add(t, duration), Resolution))

\* ReadValues, up to the transaction: reads the clock and computes the window.
ReadValuesBegin(id, duration) ==
    /\ Alive
    /\ rd = Idle
    /\ rd' = [pc |-> "view", sensor |-> id, duration |-> duration,
              now |-> Now,
              endTime |-> Truncate(Now, Resolution),
              start |-> StartKey(Now, duration)]
    /\ ret' = NoRet
    /\ UNCHANGED <<now, zone, db, wlock, chans, panicked, main>>

\* A loop that steps over an entry it cannot decode.
RECURSIVE ScanSkipping(_, _, _, _)
ScanSkipping(b, ks, endTime, valuesList) ==
    IF ks = <<>> THEN [list |-> valuesList, err |-> FALSE]
    ELSE LET k == Head(ks)
             currentKey == Parse(k)
         IN IF ~currentKey.ok THEN ScanSkipping(b, Tail(ks), endTime, valuesList)
            ELSE IF currentKey.instant > endTime.instant
              THEN [list |-> valuesList, err |-> FALSE]
            ELSE LET values == convertToValues(k, b[k]) IN
                 IF values.err THEN ScanSkipping(b, Tail(ks), endTime, valuesList)
                 ELSE ScanSkipping(b, Tail(ks), endTime, Append(valuesList, values.ptr[1]))

\* The loop of ReadValues over the keys ks the cursor yields, in bucket b:
\* [list, err].  The list collected so far is returned with an error too.
RECURSIVE Scan(_, _, _, _)
Scan(b, ks, endTime, valuesList) ==
    IF ks = <<>> THEN [list |-> valuesList, err |-> FALSE]
    ELSE LET k == Head(ks)
             currentKey == Parse(k)
         IN IF ~currentKey.ok THEN [list |-> valuesList, err |-> TRUE]
            ELSE IF currentKey.instant > endTime.instant
              THEN [list |-> valuesList, err |-> FALSE]
            ELSE LET values == convertToValues(k, b[k]) IN
                 IF values.err THEN [list |-> valuesList, err |-> TRUE]
                 ELSE Scan(b, Tail(ks), endTime, Append(valuesList, values.ptr[1]))

\* ReadValues, the read-only transaction and the return.
ReadValuesView ==
    /\ Alive
    /\ rd.pc = "view"
    /\ rd' = Idle
    /\ IF rd.sensor \in DOMAIN db
         THEN LET b == db[rd.sensor]
                  result == Scan(b, Seek(b, rd.start), rd.endTime, <<>>)
              IN /\ ret' = [op |-> "ReadValues", sensor |-> rd.sensor,
                            duration |-> rd.duration, now |-> rd.now,
                            list |-> result.list, err |-> result.err]
                 /\ UNCHANGED panicked
         ELSE /\ panicked' = TRUE
              /\ ret' = NoRet
    /\ UNCHANGED <<now, zone, db, wlock, chans, main>>

\* --------------------------------------------------------- construction
\* The engine before any New: it has no root bucket.
NoRoot == [absent |-> TRUE]

\* tx.CreateBucketIfNotExists([]byte(sensorBucket)): the root bucket
\* afterwards.
CreateRootIfNotExists(root) == IF root = NoRoot THEN <<>> ELSE root

\* The engine as bolt.Open hands it to New, before any store exists.
InitFresh ==
    /\ now = StartTime
    /\ zone = StartZone
    /\ db = NoRoot
    /\ wlock = 0
    /\ chans = <<>>
    /\ rd = Idle
    /\ ret = NoRet
    /\ panicked = FALSE
    /\ main = MainStart

\* New(db, resolution): one read-write transaction that creates the root
\* bucket if it is absent, and the Store.
New ==
    /\ Alive
    /\ wlock = 0
    /\ db' = CreateRootIfNotExists(db)
    /\ ret' = [op |-> "New", err |-> FALSE]
    /\ UNCHANGED <<now, zone, wlock, chans, rd, panicked, main>>

\* ------------------------------------------------------------ corruption
\* Keys time.Parse rejects: "05" (cut short) sorts among the keys
\* StoreValues writes, "X" after all of them.
BadKeys == {<<48, 53>>, <<88>>}

\* A value json.Unmarshal rejects: "{".
BadValue == <<123>>

\* convertToValues can decode the entry of key k in bucket b.
Decodable(b, k) == Parse(k).ok /\ Unmarshal(b[k]).ok

\* The entries something else than StoreValues may leave in a bucket at
\* clock reading t: a bad key with a good value, or the key of t with a bad
\* value.
Malformed(t) ==
    {<<k, Marshal(SensorValues(F(1), F(0))).bytes>> : k \in BadKeys}
        \cup {<<StoreKey(t), BadValue>>}

\* An undecodable entry appears in the bucket of sensor id: a write to the
\* shared engine that did not go through StoreValues.
Corrupt(id, e) ==
    /\ Alive
    /\ wlock = 0
    /\ id \in DOMAIN db
    /\ Cardinality({k \in DOMAIN db[id] : ~Decodable(db[id], k)}) < MaxCorrupt
    /\ db' = [db EXCEPT ![id] = Put(@, e[1], e[2])]
    /\ ret' = NoRet
    /\ UNCHANGED <<now, zone, wlock, chans, rd, panicked, main>>

\* ------------------------------------------------------ ingestion actions
\* A sensor bucket created anew whether or not it exists.
CreateBucket(root, id) == (id :> EmptyBucket) @@ [s \in DOMAIN root \ {id} |-> root[s]]

\* root.CreateBucketIfNotExists(sensorID): the root bucket afterwards.
CreateBucketIfNotExists(root, id) ==
    IF id \in DOMAIN root THEN root ELSE (id :> EmptyBucket) @@ root

\* StoreValuesChannel(sensorID): creates the sensor's bucket if it is absent,
\* then makes the channel and starts the Writer Routine.
StoreValuesChannel(id) ==
    /\ Alive
    /\ wlock = 0
    /\ Len(chans) < MaxHandles
    /\ db' = CreateBucketIfNotExists(db, id)
    /\ chans' = Append(chans, NewChan(id))
    /\ ret' = [op |-> "StoreValuesChannel", sensor |-> id,
               handle |-> Len(chans) + 1, err |-> FALSE]
    /\ UNCHANGED <<now, zone, wlock, rd, panicked, main>>

\* The number of sends started so far, over all handles.
RECURSIVE SendsStarted(_)
SendsStarted(cs) == IF cs = <<>> THEN 0 ELSE Len(Head(cs).sent) + SendsStarted(Tail(cs))

\* c <- values: the send completes at once if the buffer has room, else the
\* sender blocks until the routine receives.
Send(h, values) ==
    /\ Alive
    /\ h \in Handles
    /\ ~chans[h].closed
    /\ SendsStarted(chans) < MaxSends
    /\ chans' = [chans EXCEPT ![h] =
                   IF Len(@.buf) < ChanCap
                     THEN [@ EXCEPT !.buf = Append(@, values),
                                    !.sent = Append(@, values)]
                     ELSE [@ EXCEPT !.sendq = Append(@, values),
                                    !.sent = Append(@, values)]]
    /\ ret' = NoRet
    /\ UNCHANGED <<now, zone, db, wlock, rd, panicked, main>>

\* A receive that serves the sender that arrived last.
LastSender(sendq) == sendq[Len(sendq)]

\* The value a receive takes from the senders blocked on the channel.
FirstSender(sendq) == Head(sendq)

\* The senders left blocked after that receive.
RestSenders(sendq) == Tail(sendq)

\* case values, open := <-c with a value to take: the routine goes on to
\* StoreValues with it.
Recv(h) ==
    /\ Alive
    /\ h \in Handles
    /\ chans[h].pc = "recv"
    /\ chans[h].buf # <<>> \/ chans[h].sendq # <<>>
    /\ chans' = [chans EXCEPT ![h] =
                   IF @.buf # <<>>
                     THEN [@ EXCEPT !.pc = "store",
                                    !.values = Head(chans[h].buf),
                                    !.recvd = Append(@, Head(chans[h].buf)),
                                    !.buf = IF chans[h].sendq = <<>> THEN Tail(@)
                                            ELSE Append(Tail(@), FirstSender(chans[h].sendq)),
                                    !.sendq = IF @ = <<>> THEN @ ELSE RestSenders(@)]
                     ELSE [@ EXCEPT !.pc = "store",
                                    !.values = FirstSender(chans[h].sendq),
                                    !.recvd = Append(@, FirstSender(chans[h].sendq)),
                                    !.sendq = RestSenders(@)]]
    /\ ret' = NoRet
    /\ UNCHANGED <<now, zone, db, wlock, rd, panicked, main>>

\* A transaction begun without waiting for the writer lock.
LockIgnored(lock) == TRUE

\* db.Update grants the writer lock when no read-write transaction is open.
LockFree(lock) == lock = 0

\* s.StoreValues(sensorID, values) in the routine: db.Update begins the
\* read-write transaction.
TxBegin(h) ==
    /\ Alive
    /\ h \in Handles
    /\ chans[h].pc = "store"
    /\ LockFree(wlock)
    /\ wlock' = h
    /\ chans' = [chans EXCEPT ![h].pc = "tx"]
    /\ ret' = NoRet
    /\ UNCHANGED <<now, zone, db, rd, panicked, main>>

\* A routine that returns when StoreValues reports an error.
AfterStoreStop(err) == IF err THEN "done" ELSE "recv"

\* Where the routine goes when StoreValues has returned err: the result is
\* dropped and the loop goes on.
AfterStore(err) == "recv"

\* The closure runs, the transaction commits (or rolls back on an error),
\* StoreValues returns and the routine goes back to the receive.
TxCommit(h) ==
    /\ Alive
    /\ h \in Handles
    /\ chans[h].pc = "tx"
    /\ StoreEffect(chans[h].sensor, chans[h].values)
    /\ wlock' = 0
    /\ chans' = [chans EXCEPT ![h].pc = AfterStore(~Marshal(chans[h].values).ok),
                              ![h].handled = Append(@, chans[h].values)]
    /\ UNCHANGED <<now, zone, rd, panicked, main>>

\* close(c), by the holder of the handle.  Closing a channel a sender is
\* blocked on panics that sender; the holder closes after its sends.
Close(h) ==
    /\ Alive
    /\ h \in Handles
    /\ ~chans[h].closed
    /\ chans[h].sendq = <<>>
    /\ chans' = [chans EXCEPT ![h].closed = TRUE]
    /\ ret' = NoRet
    /\ UNCHANGED <<now, zone, db, wlock, rd, panicked, main>>

\* A routine that does not look at open and stores the zero value.
OnClosedStore == "store"

\* Where the routine goes when its receive reports the channel closed
\* (if !open { return }).
OnClosed == "done"

\* case values, open := <-c on a closed, drained channel: open is false.
RecvClosed(h) ==
    /\ Alive
    /\ h \in Handles
    /\ chans[h].pc = "recv"
    /\ chans[h].closed
    /\ chans[h].buf = <<>>
    /\ chans' = [chans EXCEPT ![h].pc = OnClosed, ![h].values = ZeroValues]
    /\ ret' = NoRet
    /\ UNCHANGED <<now, zone, db, wlock, rd, panicked, main>>

\* ---------------------------------------------------------------- daemon
\* The readings sensor.Read() delivers: numbers.
Measured == {v \in Samples : Marshal(v).ok}

\* The handle main got from StoreValuesChannel(sensorID).
c == 1

\* The ticker fires, one resolution after the last time: a tick waits in
\* ticker.C, which holds one tick and drops the others.
TickerFire ==
    /\ Alive
    /\ main.fired < MaxTicks
    /\ now' = now + Resolution
    /\ main' = [main EXCEPT !.tick = TRUE, !.fired = @ + 1]
    /\ ret' = NoRet
    /\ UNCHANGED <<zone, db, wlock, chans, rd, panicked>>

\* SIGINT or SIGTERM arrives: signal.Notify puts it into signals.
Signal ==
    /\ Alive
    /\ main.pc \in {"loop", "send"}
    /\ ~main.signal
    /\ main' = [main EXCEPT !.signal = TRUE]
    /\ ret' = NoRet
    /\ UNCHANGED <<now, zone, db, wlock, chans, rd, panicked>>

\* case <-ticker.C with a reading: the loop starts the send of the values
\* and blocks in it.
LoopRead(values) ==
    /\ Alive
    /\ main.pc = "loop"
    /\ main.tick
    /\ main' = [main EXCEPT !.pc = "send", !.tick = FALSE]
    /\ chans' = [chans EXCEPT ![c].sendq = Append(@, values),
                              ![c].sent = Append(@, values)]
    /\ ret' = NoRet
    /\ UNCHANGED <<now, zone, db, wlock, rd, panicked>>

\* case <-ticker.C when sensor.Read() fails: log.Fatalln exits the process
\* at once, without main's deferred db.Close().
LoopReadFails ==
    /\ Alive
    /\ main.pc = "loop"
    /\ main.tick
    /\ main' = [main EXCEPT !.pc = "fatal", !.tick = FALSE]
    /\ ret' = NoRet
    /\ UNCHANGED <<now, zone, db, wlock, chans, rd, panicked>>

\* The routine has taken the value: the send completes and the loop is
\* back at its select.
LoopSent ==
    /\ Alive
    /\ main.pc = "send"
    /\ chans[c].sendq = <<>>
    /\ main' = [main EXCEPT !.pc = "loop"]
    /\ ret' = NoRet
    /\ UNCHANGED <<now, zone, db, wlock, chans, rd, panicked>>

\* A loop that closes the channel before it returns.
OnSignalClose(ch) == [ch EXCEPT !.closed = TRUE]

\* What case s := <-signals does to the ingestion channel: nothing.
OnSignal(ch) == ch

\* case s := <-signals: readSensorValues returns.
LoopSignal ==
    /\ Alive
    /\ main.pc = "loop"
    /\ main.signal
    /\ main' = [main EXCEPT !.pc = "returned", !.signal = FALSE]
    /\ chans' = [chans EXCEPT ![c] = OnSignal(@)]
    /\ ret' = NoRet
    /\ UNCHANGED <<now, zone, db, wlock, rd, panicked>>

\* main returns: the deferred db.Close() waits for the writer lock and
\* closes the engine, and the process exits with every goroutine it has.
\* A routine that gets to db.Update between the close and the exit is
\* refused (the database is not open) and stores nothing.
MainReturn ==
    /\ Alive
    /\ main.pc = "returned"
    /\ wlock = 0
    /\ main' = [main EXCEPT !.pc = "exited"]
    /\ ret' = NoRet
    /\ UNCHANGED <<now, zone, db, wlock, chans, rd, panicked>>

\* ---------------------------------------------------------- specifications
\* The store under direct calls: writes, queries, clock and zone changes.
Next ==
    \/ Tick
    \/ ZoneChange
    \/ \E id \in Sensors, v \in Samples : StoreValues(id, v)
    \/ \E id \in Sensors : ReadLastValue(id)
    \/ \E id \in Sensors, d \in Durations : ReadValuesBegin(id, d)
    \/ ReadValuesView

Spec == Init /\ [][Next]_vars

\* The ingestion pipeline of sensorID: handles, senders and Writer Routines,
\* at one reading of the clock.
NextIngest ==
    \/ StoreValuesChannel(sensorID)
    \/ \E h \in Handles, v \in Readings : Send(h, v)
    \/ \E h \in Handles : Recv(h)
    \/ \E h \in Handles : TxBegin(h)
    \/ \E h \in Handles : TxCommit(h)
    \/ \E h \in Handles : Close(h)
    \/ \E h \in Handles : RecvClosed(h)

SpecIngest == Init /\ [][NextIngest]_vars

\* The same under the scheduling Go gives: a runnable routine runs
\* (weak fairness), and a routine waiting for the writer lock gets it in the
\* end, as sync.Mutex hands a starving waiter the lock (strong fairness).
FairSpecIngest ==
    /\ SpecIngest
    /\ \A h \in 1 .. MaxHandles :
         /\ WF_vars(Recv(h))
         /\ SF_vars(TxBegin(h))
         /\ WF_vars(TxCommit(h))
         /\ WF_vars(RecvClosed(h))

\* The store of sensorID under direct calls in one zone, with undecodable
\* entries turning up in its bucket.
NextCorrupt ==
    \/ Tick
    \/ \E v \in Samples : StoreValues(sensorID, v)
    \/ \E e \in Malformed(Now) : Corrupt(sensorID, e)
    \/ ReadLastValue(sensorID)
    \/ \E d \in Durations : ReadValuesBegin(sensorID, d)
    \/ ReadValuesView

SpecCorrupt == Init /\ [][NextCorrupt]_vars

\* Provisioning from a fresh engine: New and StoreValuesChannel called any
\* number of times for both sensors, once a first New has made the Store,
\* while the Writer Routines store what is sent to them.
NextProvision ==
    \/ New
    \/ \E id \in Sensors : db # NoRoot /\ StoreValuesChannel(id)
    \/ \E h \in Handles, v \in Readings : Send(h, v)
    \/ \E h \in Handles : Recv(h)
    \/ \E h \in Handles : TxBegin(h)
    \/ \E h \in Handles : TxCommit(h)

SpecProvision == InitFresh /\ [][NextProvision]_vars

\* The daemon: the ticker, the signal, the Sampling Loop of main and the
\* Writer Routine of sensorID.  Nothing in the daemon closes the channel.
NextDaemon ==
    \/ TickerFire
    \/ Signal
    \/ \E v \in Measured : LoopRead(v)
    \/ LoopReadFails
    \/ LoopSent
    \/ LoopSignal
    \/ MainReturn
    \/ Recv(c)
    \/ TxBegin(c)
    \/ TxCommit(c)

SpecDaemon == Init /\ [][NextDaemon]_vars

\* ------------------------------------------------------------ properties
\* The entries of bucket b as ReadValues would decode them.
Entry(b, k) == TimedSensorValues(Parse(k).instant, Unmarshal(b[k]).values)

\* The query window of a ReadValues call that read the clock at t:
\* [truncate(t - d), truncate(t)] for d > 0, [truncate(t + d), truncate(t)]
\* for d <= 0.
WindowStart(t, d) ==
    IF d > 0 THEN Truncate(Add(t, 0 - d), Resolution).instant
    ELSE Truncate(Add(t, d), Resolution).instant

WindowEnd(t) == Truncate(t, Resolution).instant

\* The keys of bucket b whose timestamps lie in the window of a query.
InWindow(b, t, d) ==
    {k \in DOMAIN b : /\ WindowStart(t, d) <= Parse(k).instant
                      /\ Parse(k).instant <= WindowEnd(t)}

\* C1 (round trip): a StoreValues call that succeeds, followed at once by
\* ReadLastValue for the same sensor, makes ReadLastValue return, without
\* an error, a non-nil result with the values written and the bucket start
\* of the write as its timestamp.
RoundTrip ==
    [][(/\ ret.op = "StoreValues" /\ ~ret.err
        /\ ret'.op = "ReadLastValue" /\ ret'.sensor = ret.sensor)
       => (/\ ~ret'.err
           /\ ret'.ptr # <<>>
           /\ ret'.ptr[1].Values = ret.values
           /\ ret'.ptr[1].Timestamp = ret.at)]_vars

\* No sensor bucket holds two entries for one truncated timestamp.
OneEntryPerTimestamp ==
    \A id \in DOMAIN db : \A k1, k2 \in DOMAIN db[id] :
        Parse(k1).instant = Parse(k2).instant => k1 = k2

\* C2 (bucket overwrite): every sensor bucket holds at most one entry per
\* truncated timestamp, and when a StoreValues call has succeeded, the
\* bucket holds exactly one entry for the resolution window of its clock
\* reading, with the values of that call -- so the second of two writes in
\* one window leaves one entry, with the second value.
BucketOverwrite ==
    /\ OneEntryPerTimestamp
    /\ (ret.op = "StoreValues" /\ ~ret.err) =>
         LET b == db[ret.sensor]
             here == {k \in DOMAIN b : Parse(k).instant = ret.at}
         IN /\ Cardinality(here) = 1
            /\ \A k \in here : Unmarshal(b[k]) = [ok |-> TRUE, values |-> ret.values]

\* C3 (empty namespace, last value): ReadLastValue on a sensor whose bucket
\* exists and is empty returns a nil result and no error.
LastValueOfEmpty ==
    (ret.op = "ReadLastValue" /\ DOMAIN db[ret.sensor] = {})
        => (ret.ptr = <<>> /\ ~ret.err)

\* C4 (empty range): ReadValues returns an empty sequence and no error
\* whenever no stored entry of the sensor lies in the query window.
EmptyRange ==
    (ret.op = "ReadValues"
     /\ InWindow(db[ret.sensor], ret.now, ret.duration) = {})
        => (ret.list = <<>> /\ ~ret.err)

\* C5 (range inclusion): for d > 0 the result of ReadValues holds exactly
\* the entries whose timestamps t satisfy
\* truncate(now - d) <= t <= truncate(now).
RangeInclusion ==
    (ret.op = "ReadValues" /\ ret.duration > 0)
        => /\ ~ret.err
           /\ {ret.list[i] : i \in 1 .. Len(ret.list)} =
                {Entry(db[ret.sensor], k) :
                   k \in InWindow(db[ret.sensor], ret.now, ret.duration)}

\* C6 (chronological ordering): the sequence ReadValues returns is in
\* non-decreasing order of Timestamp.
Chronological ==
    ret.op = "ReadValues"
        => \A i, j \in 1 .. Len(ret.list) :
              i < j => ret.list[i].Timestamp <= ret.list[j].Timestamp

\* s is a prefix of t.
IsPrefix(s, t) == Len(s) <= Len(t) /\ SubSeq(t, 1, Len(s)) = s

\* The number of sends on handle h that have completed.
SendsCompleted(h) == Len(chans[h].sent) - Len(chans[h].sendq)

\* C7 (FIFO ingestion): on every handle the values the Writer Routine has
\* received, and the values it has handed to StoreValues and seen return,
\* are in the order their sends began: each is a prefix of the sequence of
\* sends.
FifoIngestion ==
    \A h \in Handles :
        /\ IsPrefix(chans[h].recvd, chans[h].sent)
        /\ IsPrefix(chans[h].handled, chans[h].recvd)

\* Two senders were blocked on one handle with different values, and the
\* routine has stored both.
FifoWitness ==
    \E h \in Handles :
        /\ Len(chans[h].handled) = 2
        /\ chans[h].handled[1] # chans[h].handled[2]

\* C8 (serialized writes): the StoreValues call for a received value has
\* returned before the routine receives the next one, and no two Writer
\* Routines of one sensor are inside a write transaction at the same time.
SerializedWrites ==
    /\ \A h \in Handles :
         /\ Len(chans[h].recvd) - Len(chans[h].handled)
              = (IF chans[h].pc \in {"store", "tx"} THEN 1 ELSE 0)
    /\ \A g, h \in Handles :
         (g # h /\ chans[g].sensor = chans[h].sensor)
             => ~(chans[g].pc = "tx" /\ chans[h].pc = "tx")

\* Two routines of one sensor both hold a value: one is inside its
\* transaction, the other waits for the writer lock.
SerializedWitness ==
    \E g, h \in Handles :
        /\ g # h /\ chans[g].sensor = chans[h].sensor
        /\ chans[g].pc = "tx" /\ chans[h].pc = "store"

\* C9 as stated: once a handle is closed, its routine completes no further
\* StoreValues call.
NoWriteAfterClose ==
    [][\A h \in Handles :
          chans[h].closed => chans'[h].handled = chans[h].handled]_vars

\* C9 (shutdown), amended: once a handle is closed its routine receives no
\* further value, completes no StoreValues call except the one for a value
\* it had received before the close, does nothing more once it has seen the
\* closure, and does see it in the end.
Shutdown ==
    /\ [][\A h \in Handles :
            chans[h].closed =>
              /\ chans'[h].recvd = chans[h].recvd
              /\ IsPrefix(chans'[h].handled, chans[h].recvd)
              /\ (chans[h].pc = "done" => chans'[h] = chans[h])]_vars
    /\ \A h \in 1 .. MaxHandles :
         (h \in Handles /\ chans[h].closed) ~> (h \in Handles /\ chans[h].pc = "done")

\* A handle is closed while its routine is inside the transaction for a
\* value it received before the close.
ShutdownWitness ==
    \E h \in Handles :
        /\ chans[h].closed /\ chans[h].pc = "tx"
        /\ Len(chans[h].recvd) = Len(chans[h].handled) + 1

\* C10 (backpressure): the channel buffers nothing, a send has completed
\* only if the routine has received its value, and at most one value whose
\* send has completed is still waiting for its StoreValues call to return.
Backpressure ==
    \A h \in Handles :
        /\ chans[h].buf = <<>>
        /\ SendsCompleted(h) = Len(chans[h].recvd)
        /\ SendsCompleted(h) - Len(chans[h].handled) <= 1

\* A sender is blocked while the routine is still storing the value of the
\* send before it.
BackpressureWitness ==
    \E h \in Handles :
        /\ chans[h].pc \in {"store", "tx"}
        /\ chans[h].sendq # <<>>
        /\ SendsCompleted(h) = 1

\* The values v for which StoreValues fails: json.Marshal rejects them.
Unstorable(v) == ~Marshal(v).ok

\* C11 (a failed write does not stop the routine): a routine ends only on
\* the closure of its channel; a StoreValues call of a routine that
\* succeeds leaves its values in the sensor's bucket, whatever failed before
\* it; and when the n-th value a routine handled made StoreValues fail and
\* a further value has been sent on its handle, the routine gets to handle
\* that one too.
SurvivesFailedWrite ==
    /\ [](\A h \in Handles : chans[h].pc = "done" => chans[h].closed)
    /\ []((ret.op = "StoreValues" /\ ~ret.err) =>
            \E k \in DOMAIN db[ret.sensor] :
                Unmarshal(db[ret.sensor][k]) = [ok |-> TRUE, values |-> ret.values])
    /\ \A h \in 1 .. MaxHandles : \A n \in 1 .. MaxSends - 1 :
         (/\ h \in Handles
          /\ Len(chans[h].handled) = n
          /\ Unstorable(chans[h].handled[n])
          /\ Len(chans[h].sent) > n)
            ~> (h \in Handles /\ Len(chans[h].handled) > n)

\* A routine's StoreValues call failed on the first value it received, and
\* its call for the second has just succeeded on an open channel.
SurvivesFailedWriteWitness ==
    \E h \in Handles :
        /\ ~chans[h].closed
        /\ Len(chans[h].handled) = 2
        /\ Unstorable(chans[h].handled[1])
        /\ ret.op = "StoreValues" /\ ~ret.err
        /\ ret.values = chans[h].handled[2]

\* C12 (write to an unprovisioned sensor): a StoreValues call for a sensor
\* that has no bucket returns an error to its caller, leaves every bucket
\* as it was, and does not crash the process.
MissingNamespaceWrite ==
    [][\A id \in Sensors, v \in Samples :
          (id \notin DOMAIN db /\ StoreValues(id, v))
              => (/\ ~panicked'
                  /\ ret'.op = "StoreValues" /\ ret'.sensor = id /\ ret'.err
                  /\ db' = db)]_vars

\* C14 (truncation): every key in a bucket decodes to a multiple of
\* Resolution, and when a StoreValues call has succeeded at clock reading
\* now, the bucket holds its values under a key that decodes to the k with
\* k a multiple of Resolution and k <= now < k + Resolution.
TruncatedKeys ==
    /\ \A id \in DOMAIN db : \A k \in DOMAIN db[id] :
          Parse(k).ok /\ Parse(k).instant % Resolution = 0
    /\ (ret.op = "StoreValues" /\ ~ret.err) =>
          \E k \in DOMAIN db[ret.sensor] :
              /\ Parse(k).instant % Resolution = 0
              /\ Parse(k).instant <= now /\ now < Parse(k).instant + Resolution
              /\ Unmarshal(db[ret.sensor][k]) = [ok |-> TRUE, values |-> ret.values]

\* A write has succeeded at a clock reading past the start of its
\* resolution window.
TruncatedKeysWitness ==
    /\ ret.op = "StoreValues" /\ ~ret.err
    /\ now % Resolution # 0

\* C15 (key order equivalence): every key is the UTC encoding of the
\* instant it denotes, and within a bucket the byte-lexical order of two
\* keys is the chronological order of their instants.
KeyOrder ==
    \A id \in DOMAIN db : \A k1, k2 \in DOMAIN db[id] :
        /\ k1 = Format(Time(Parse(k1).instant, 0))
        /\ BytesLess(k1, k2) <=> Parse(k1).instant < Parse(k2).instant

\* What ReadValues returns for bucket b when it reads the clock at t and
\* nothing happens before its transaction.
RangeOf(b, t, duration) ==
    Scan(b, Seek(b, StartKey(t, duration)), Truncate(t, Resolution), <<>>)

\* C16 (non-positive duration): a ReadValues call with duration <= 0 seeks
\* to the key of truncate(now + duration) and ends at truncate(now); for
\* one clock reading and one store a query for -d returns what a query for
\* d returns; and a query for 0 returns the entries of the current
\* resolution window and no others.
NonPositiveDuration ==
    /\ (rd.pc = "view" /\ rd.duration <= 0) =>
          /\ Parse(rd.start).instant
               = Truncate(Add(rd.now, rd.duration), Resolution).instant
          /\ rd.endTime.instant = Truncate(rd.now, Resolution).instant
    /\ \A id \in DOMAIN db : \A d \in Durations :
          RangeOf(db[id], Now, 0 - d) = RangeOf(db[id], Now, d)
    /\ (ret.op = "ReadValues" /\ ret.duration = 0) =>
          /\ ~ret.err
          /\ {ret.list[i] : i \in 1 .. Len(ret.list)} =
               {Entry(db[ret.sensor], k) :
                  k \in {j \in DOMAIN db[ret.sensor] :
                           Parse(j).instant = Truncate(ret.now, Resolution).instant}}

\* The keys a ReadValues loop visits before it stops, as far as it goes
\* when nothing stops it but a key past endTime: ks up to the first key
\* that decodes to an instant after endTime.
RECURSIVE ScannedRange(_, _)
ScannedRange(ks, endTime) ==
    IF ks = <<>> THEN <<>>
    ELSE IF Parse(Head(ks)).ok /\ Parse(Head(ks)).instant > endTime.instant THEN <<>>
    ELSE <<Head(ks)>> \o ScannedRange(Tail(ks), endTime)

\* C13 (corruption is never skipped): when an entry in the range a
\* ReadValues call scans has a key or a value that cannot be decoded, the
\* call returns an error, and a call that returns no error returns one
\* element for every entry of that range; when the last entry of a bucket
\* cannot be decoded, ReadLastValue returns an error and no result.
NoSilentSkip ==
    /\ ret.op = "ReadValues" =>
         LET b == db[ret.sensor]
             range == ScannedRange(Seek(b, StartKey(ret.now, ret.duration)),
                                   Truncate(ret.now, Resolution))
         IN /\ (\E i \in 1 .. Len(range) : ~Decodable(b, range[i])) => ret.err
            /\ ~ret.err => Len(ret.list) = Len(range)
    /\ (/\ ret.op = "ReadLastValue"
        /\ DOMAIN db[ret.sensor] # {}
        /\ ~Decodable(db[ret.sensor], Last(db[ret.sensor]).k))
          => (ret.err /\ ret.ptr = <<>>)

\* A ReadValues call has returned an error because an undecodable entry
\* followed a good one in the range it scanned.
NoSilentSkipWitness ==
    /\ ret.op = "ReadValues" /\ ret.err
    /\ Len(ret.list) > 0
    /\ \E k \in DOMAIN db[ret.sensor] : ~Decodable(db[ret.sensor], k)

\* C18 (a malformed record aborts the query): a ReadValues call that
\* returns an error returns none of the entries it had collected.
AbortsEntirely ==
    (ret.op = "ReadValues" /\ ret.err) => ret.list = <<>>

\* C17 (idempotent provisioning): New leaves a root bucket behind and
\* StoreValuesChannel the bucket of its sensor; a New or StoreValuesChannel
\* call on an engine that has a root bucket leaves every sensor bucket there
\* with every entry it held; and the bucket of a handle's sensor exists
\* from the creation of the handle on, so before its routine's first write.
IdempotentProvisioning ==
    /\ [][/\ ret'.op = "New" => db' # NoRoot
          /\ ret'.op = "StoreValuesChannel" => ret'.sensor \in DOMAIN db'
          /\ (ret'.op \in {"New", "StoreValuesChannel"} /\ db # NoRoot) =>
                \A id \in DOMAIN db : id \in DOMAIN db' /\ db'[id] = db[id]]_vars
    /\ [](\A h \in Handles : chans[h].sensor \in DOMAIN db)

\* StoreValuesChannel has just returned for a sensor whose bucket held an
\* entry already.
IdempotentProvisioningWitness ==
    /\ ret.op = "StoreValuesChannel"
    /\ DOMAIN db[ret.sensor] # {}

\* main has left the Sampling Loop on a signal.
LoopReturned == main.pc \in {"returned", "exited"}

\* C19 (cooperative shutdown of the daemon): taking the signal makes the
\* Sampling Loop return; once it has returned nothing more is sent; the
\* ingestion channel is never closed and the Writer Routine never ends on
\* a closure; and once the loop has returned, a routine that waits in its
\* receive stays there.
CooperativeShutdown ==
    /\ [][(main.signal /\ ~main'.signal) => main'.pc = "returned"]_vars
    /\ [][LoopReturned =>
            /\ chans'[c].sent = chans[c].sent
            /\ (chans[c].pc = "recv" => chans'[c].pc = "recv")]_vars
    /\ [](~chans[c].closed /\ chans[c].pc # "done")

\* The daemon has shut down on a signal after the routine stored a value;
\* the routine was waiting in its receive on the open channel.
CooperativeShutdownWitness ==
    /\ main.pc = "exited"
    /\ chans[c].handled # <<>>
    /\ chans[c].pc = "recv" /\ ~chans[c].closed

\* C20 (no hand-off lost at shutdown): when the daemon has closed the
\* engine and exited on a signal, the StoreValues call of every value
\* whose send completed has returned, and the value is in the store.
NoLostHandOff ==
    main.pc = "exited" =>
        /\ chans[c].handled = SubSeq(chans[c].sent, 1, SendsCompleted(c))
        /\ \A i \in 1 .. SendsCompleted(c) :
              \E k \in DOMAIN db[sensorID] :
                  Unmarshal(db[sensorID][k]).values = chans[c].sent[i]

====
